---- MODULE Spec2Model ----
(***************************************************************************)
(* Model of non_exclusive_aggregation.py: parse_mapping and                *)
(* all_combos_non_exclusive_agg.                                           *)
(*                                                                         *)
(* A table (DataFrame) is a sequence of rows; a row is a function from     *)
(* column names to values.  A Python dict is a sequence of <<key, value>>  *)
(* pairs in insertion order.  An optional argument is a sequence of length *)
(* 0 (None, or the argument left out) or 1.  A membership spec is a record *)
(* [all, vals]: all = TRUE is the string "__ALL__", otherwise vals is the  *)
(* collection of raw values.  A numeric cell is an exact fraction          *)
(* <<numerator, denominator>>; the null cell (NaN) is <<0, 0>>.            *)
(***************************************************************************)
EXTENDS Integers, Sequences, FiniteSets, TLC

VARIABLES
    pc,                 \* "ready": a call is about to run; "returned" / "raised": it ended
    df,                 \* the caller's dataset object
    groupcols,          \* argument groupcols
    category_mappings,  \* the caller's category_mappings object, <<>> when left out
    valuecols,          \* argument valuecols
    aggargs,            \* argument aggargs, <<>> when None
    totalcodes,         \* the caller's totalcodes object, <<>> when None
    keep_empty,         \* argument keep_empty
    grand_total,        \* argument grand_total
    default_mappings,   \* the dict object that is the default of category_mappings
    entry,              \* the mappings and totalcodes as the call received them
    tbl,                \* the returned table
    stage,              \* the step of the function body at which the call ended
    indicators,         \* number of indicator columns the call built
    calls               \* number of calls the caller has written

vars == <<pc, df, groupcols, category_mappings, valuecols, aggargs, totalcodes,
          keep_empty, grand_total, default_mappings, entry, tbl, stage, indicators,
          calls>>

-----------------------------------------------------------------------------
\* Bounds of the model.

\* Largest number of rows of a dataset.
MaxRows == 2

\* Largest number of calls in a sequence of calls.
MaxCalls == 2

\* The columns every dataset has, the raw values of the dimension columns
\* and the values of the value column.
Columns == {"a", "b", "n"}
Vals == {1, 2}
NVals == {0, 2}

-----------------------------------------------------------------------------
\* Python values.

\* str(x) of a raw value.
Str(x) == CASE x = 1 -> "1" [] x = 2 -> "2" [] x = 3 -> "3" [] OTHER -> "0"

\* The strings of the model in Python's string order (code point order).
StrOrder == <<"0", "1", "2", "3", "L1", "L2", "T", "Total", "__NA__">>

StrRank(s) == CHOOSE i \in DOMAIN StrOrder : StrOrder[i] = s

\* Lexicographic order of two key tuples of the same length.
RECURSIVE KeyLess(_, _, _)
KeyLess(k1, k2, i) ==
    IF i > Len(k1) THEN FALSE
    ELSE IF k1[i] = k2[i] THEN KeyLess(k1, k2, i + 1)
    ELSE StrRank(k1[i]) < StrRank(k2[i])

Range(s) == {s[i] : i \in DOMAIN s}

\* dict: keys, lookup, and assignment d[k] = v (in place for a key that
\* exists, at the end for a new key).
DictKeys(d) == [i \in DOMAIN d |-> d[i][1]]

KeySet(d) == {d[i][1] : i \in DOMAIN d}

DictGet(d, k) == d[CHOOSE i \in DOMAIN d : d[i][1] = k][2]

DictSet(d, k, v) ==
    IF k \in KeySet(d)
    THEN [i \in DOMAIN d |-> IF d[i][1] = k THEN <<k, v>> ELSE d[i]]
    ELSE Append(d, <<k, v>>)

\* Series.unique(): the distinct values in order of first appearance.
RECURSIVE Unique(_)
Unique(x) ==
    IF x = <<>> THEN <<>>
    ELSE LET front == Unique(SubSeq(x, 1, Len(x) - 1))
             last == x[Len(x)]
         IN IF last \in Range(front) THEN front ELSE Append(front, last)

\* A column of a table.
Column(t, col) == [i \in DOMAIN t |-> t[i][col]]

-----------------------------------------------------------------------------
\* Exact fractions for numeric cells.

RECURSIVE Gcd(_, _)
Gcd(x, y) == IF y = 0 THEN x ELSE Gcd(y, x % y)

Null == <<0, 0>>

Num(k) == <<k, 1>>

Norm(q) == LET g == Gcd(q[1], q[2]) IN IF g = 0 THEN Num(0) ELSE <<q[1] \div g, q[2] \div g>>

RatAdd(p, q) == Norm(<<p[1] * q[2] + q[1] * p[2], p[2] * q[2]>>)

RECURSIVE RatSum(_)
RatSum(s) == IF s = <<>> THEN Num(0) ELSE RatAdd(s[1], RatSum(Tail(s)))

NotNull(s) == SelectSeq(s, LAMBDA q : q # Null)

-----------------------------------------------------------------------------
\* pandas operations used by the function.

\* One aggregate function of aggargs applied to the cells of a group
\* (pandas skips null cells).
Aggregate(f, s) ==
    LET cells == NotNull(s)
        total == RatSum(cells)
    IN CASE f = "sum" -> total
         [] f = "count" -> Num(Len(cells))
         [] f = "mean" -> IF cells = <<>> THEN Null
                          ELSE Norm(<<total[1], total[2] * Len(cells)>>)

KeyOf(r, by) == [i \in DOMAIN by |-> r[by[i]]]

\* The group keys in sorted order (groupby sorts its keys).
RECURSIVE SortKeys(_)
SortKeys(S) ==
    IF S = {} THEN <<>>
    ELSE LET m == CHOOSE k \in S : \A o \in S \ {k} : KeyLess(k, o, 1)
         IN <<m>> \o SortKeys(S \ {m})

\* t.groupby(by).agg(agg).reset_index(): one row per distinct key, the key
\* columns followed by one aggregated cell per column of agg.
GroupByAgg(t, by, agg) ==
    LET keys == SortKeys({KeyOf(t[i], by) : i \in DOMAIN t})
        Group(k) == SelectSeq(t, LAMBDA r : KeyOf(r, by) = k)
        Pos(c) == CHOOSE i \in DOMAIN by : by[i] = c
    IN [j \in DOMAIN keys |->
          [c \in Range(by) \cup KeySet(agg) |->
              IF c \in Range(by) THEN keys[j][Pos(c)]
              ELSE Aggregate(DictGet(agg, c), Column(Group(keys[j]), c))]]

\* t.melt(id_vars, value_vars, value_name = var), then the rows whose var is
\* "__NA__" removed and the column "__variable__" dropped: for each column
\* of value_vars in turn, every row of t with that column's cell as var.
MeltDim(t, id_vars, value_vars, var) ==
    LET n == Len(t)
        long == [j \in 1..(n * Len(value_vars)) |->
                    LET r == t[((j - 1) % n) + 1]
                        p == value_vars[((j - 1) \div n) + 1]
                    IN [c \in id_vars \cup {var} |-> IF c = var THEN r[p] ELSE r[c]]]
    IN SelectSeq(long, LAMBDA r : r[var] # "__NA__")

\* itertools.product of sequences: the first sequence varies slowest.
RECURSIVE Product(_)
Product(seqs) ==
    IF seqs = <<>> THEN <<<<>>>>
    ELSE LET rest == Product(Tail(seqs))
             first == seqs[1]
         IN [j \in 1..(Len(first) * Len(rest)) |->
               <<first[((j - 1) \div Len(rest)) + 1]>> \o rest[((j - 1) % Len(rest)) + 1]]

RECURSIVE Flatten(_)
Flatten(ss) == IF ss = <<>> THEN <<>> ELSE ss[1] \o Flatten(Tail(ss))

-----------------------------------------------------------------------------
\* parse_mapping: "__ALL__" resolves to the values observed in the column,
\* any other spec is returned as it is.
parse_mapping(mapping, x) ==
    IF mapping.all THEN Range(Unique(x)) ELSE mapping.vals

-----------------------------------------------------------------------------
\* The steps of all_combos_non_exclusive_agg.

ALL == [all |-> TRUE, vals |-> {}]

Explicit(S) == [all |-> FALSE, vals |-> S]

\* The mapping synthesized for a group column: one label str(x) per observed
\* value x, with the value set [x].
IdentityMapping(d, col) ==
    LET items == Unique(Column(d, col))
    IN [i \in DOMAIN items |-> <<Str(items[i]), Explicit({items[i]})>>]

\* Mutant of SynthGroupcols: a column missing from the dataset is passed
\* over instead of raising.
RECURSIVE SynthGroupcolsSkip(_, _, _, _)
SynthGroupcolsSkip(cm, gcols, d, i) ==
    IF i > Len(gcols) THEN [raised |-> FALSE, cm |-> cm]
    ELSE SynthGroupcolsSkip(IF gcols[i] \in KeySet(cm) \/ gcols[i] \notin Columns THEN cm
                            ELSE DictSet(cm, gcols[i], IdentityMapping(d, gcols[i])),
                            gcols, d, i + 1)

\* The loop over groupcols: a column missing from the dataset raises; a
\* column with no entry in the mappings object gets its identity mapping
\* written into that object.
RECURSIVE SynthGroupcols(_, _, _, _)
SynthGroupcols(cm, gcols, d, i) ==
    IF i > Len(gcols) THEN [raised |-> FALSE, cm |-> cm]
    ELSE IF gcols[i] \notin Columns THEN [raised |-> TRUE, cm |-> cm]
    ELSE SynthGroupcols(IF gcols[i] \in KeySet(cm) THEN cm
                        ELSE DictSet(cm, gcols[i], IdentityMapping(d, gcols[i])),
                        gcols, d, i + 1)

\* df.copy()[all_cols]: a column of all_cols missing from the dataset raises;
\* otherwise a new table with the columns of all_cols.
SelectRaises(all_cols) == \E i \in DOMAIN all_cols : all_cols[i] \notin Columns

SelectColumns(d, all_cols, vcols) ==
    [i \in DOMAIN d |->
        [c \in Range(all_cols) |-> IF c \in Range(vcols) THEN Num(d[i][c]) ELSE d[i][c]]]

\* The loop over totalcodes.items(): category_mappings[var][code] = "__ALL__";
\* a var that is no key of the mappings object raises.
RECURSIVE InjectTotalcodes(_, _, _)
InjectTotalcodes(cm, tc, i) ==
    IF i > Len(tc) THEN [raised |-> FALSE, cm |-> cm]
    ELSE IF tc[i][1] \notin KeySet(cm) THEN [raised |-> TRUE, cm |-> cm]
    ELSE InjectTotalcodes(DictSet(cm, tc[i][1], DictSet(DictGet(cm, tc[i][1]), tc[i][2], ALL)),
                          tc, i + 1)

\* The default "Total" for every pivot variable totalcodes does not name.
RECURSIVE DefaultTotalcodes(_, _, _)
DefaultTotalcodes(tc, pivot_vars, i) ==
    IF i > Len(pivot_vars) THEN tc
    ELSE DefaultTotalcodes(IF pivot_vars[i] \in KeySet(tc) THEN tc
                           ELSE DictSet(tc, pivot_vars[i], "Total"),
                           pivot_vars, i + 1)

\* "__" + var + "__" + str(i)
PivotName(var, i) ==
    CASE var = "a" -> <<"__a__0", "__a__1", "__a__2", "__a__3">>[i + 1]
      [] var = "b" -> <<"__b__0", "__b__1", "__b__2", "__b__3">>[i + 1]

\* pivot_names[var]
pivot_names(cm, var) == [i \in DOMAIN DictGet(cm, var) |-> PivotName(var, i - 1)]

\* The indicator columns in the order they are built, each with its
\* variable, label and membership spec.
PivotColumns(cm) ==
    Flatten([k \in DOMAIN cm |->
        [i \in DOMAIN cm[k][2] |->
            [name |-> PivotName(cm[k][1], i - 1), var |-> cm[k][1],
             label |-> cm[k][2][i][1], spec |-> cm[k][2][i][2]]]])

\* The cell of one indicator column: the label where the row's raw value is
\* in the resolved value set, "__NA__" elsewhere.
Indicator(d, r, p) ==
    IF r[p.var] \in parse_mapping(p.spec, Column(d, p.var)) THEN p.label ELSE "__NA__"

\* Mutant of Expand: exclusive categories, a row is marked only under the
\* first label of a dimension that it matches.
ExpandExclusive(d, cm) ==
    LET cols == PivotColumns(cm)
        names == {cols[j].name : j \in DOMAIN cols}
        Idx(c) == CHOOSE j \in DOMAIN cols : cols[j].name = c
        Earlier(r, j) == \E k \in 1..(j - 1) :
                            cols[k].var = cols[j].var /\ Indicator(d, r, cols[k]) # "__NA__"
    IN [i \in DOMAIN d |->
          [c \in DOMAIN d[i] \cup names |->
              IF c \in names
              THEN IF Earlier(d[i], Idx(c)) THEN "__NA__" ELSE Indicator(d, d[i], cols[Idx(c)])
              ELSE d[i][c]]]

\* The working table with every indicator column added.
Expand(d, cm) ==
    LET cols == PivotColumns(cm)
        names == {cols[j].name : j \in DOMAIN cols}
        Col(c) == cols[CHOOSE j \in DOMAIN cols : cols[j].name = c]
    IN [i \in DOMAIN d |->
          [c \in DOMAIN d[i] \cup names |->
              IF c \in names THEN Indicator(d, d[i], Col(c)) ELSE d[i][c]]]

\* The loop that melts one variable's indicator columns at a time.
RECURSIVE Reduce(_, _, _, _, _)
Reduce(t, id_vars, cm, pivot_vars, i) ==
    IF i > Len(pivot_vars) THEN t
    ELSE LET var == pivot_vars[i]
             ids == id_vars \ Range(pivot_names(cm, var))
         IN Reduce(MeltDim(t, ids, pivot_names(cm, var), var),
                   ids \cup {var}, cm, pivot_vars, i + 1)

\* The grand total: every pivot variable of the working table overwritten
\* with its total label, then the same group-by and aggregation.
GrandTotal(wide, pivot_vars, tc, agg) ==
    LET total_df == [i \in DOMAIN wide |->
                        [c \in DOMAIN wide[i] |->
                            IF c \in Range(pivot_vars) THEN DictGet(tc, c) ELSE wide[i][c]]]
    IN GroupByAgg(total_df, pivot_vars, agg)

\* keep_empty: the product of the values each pivot variable takes in the
\* table, left-joined with the table; a combination with no row gets one
\* row of null cells, a combination with several rows keeps them all.
FillEmpty(t, pivot_vars, agg) ==
    LET all_combos == Product([i \in DOMAIN pivot_vars |-> Unique(Column(t, pivot_vars[i]))])
        Pos(c) == CHOOSE i \in DOMAIN pivot_vars : pivot_vars[i] = c
        Matches(k) == SelectSeq(t, LAMBDA r : KeyOf(r, pivot_vars) = k)
        Empty(k) == [c \in Range(pivot_vars) \cup KeySet(agg) |->
                        IF c \in Range(pivot_vars) THEN k[Pos(c)] ELSE Null]
    IN Flatten([j \in DOMAIN all_combos |->
          IF Matches(all_combos[j]) = <<>> THEN <<Empty(all_combos[j])>>
          ELSE Matches(all_combos[j])])

\* How a call ended: pc is "returned" or "raised", stage the step it ended
\* at, cm and tc the mappings object and the totalcodes argument as the call
\* left them, t the returned table, n the indicator columns built.
Outcome(p, st, cm, tc, t, n) ==
    [pc |-> p, stage |-> st, cm |-> cm, tc |-> tc, tbl |-> t, indicators |-> n]

\* The first group-by raises for aggargs None (agg needs a function) and
\* for an empty list of indicator columns (no group keys).
AggregateRaises(agg, all_pivot_names) ==
    agg = <<>> \/ all_pivot_names = <<>>

\* The body of all_combos_non_exclusive_agg on dataset d, with cm0 the
\* mappings object it works on (the caller's, or the default object).
Body(d, gcols, cm0, vcols, agg, tc0, keep, grand) ==
    LET g == SynthGroupcols(cm0, gcols, d, 1)
        all_cols == vcols \o DictKeys(g.cm)
        given == tc0 # <<>> /\ tc0[1] # <<>>
        inj == IF given THEN InjectTotalcodes(g.cm, tc0[1], 1)
               ELSE [raised |-> FALSE, cm |-> g.cm]
        cm == inj.cm
        pivot_vars == DictKeys(cm)
        tc == DefaultTotalcodes(IF given THEN tc0[1] ELSE <<>>, pivot_vars, 1)
        tc_after == IF given THEN <<tc>> ELSE tc0
        cols == PivotColumns(cm)
        all_pivot_names == [j \in DOMAIN cols |-> cols[j].name]
        wide == Expand(SelectColumns(d, all_cols, vcols), cm)
        first == GroupByAgg(wide, all_pivot_names, agg[1])
        long == Reduce(first, Range(all_pivot_names) \cup Range(vcols), cm, pivot_vars, 1)
        regrouped == GroupByAgg(long, pivot_vars, agg[1])
        totalled == IF grand THEN regrouped \o GrandTotal(wide, pivot_vars, tc, agg[1])
                    ELSE regrouped
    IN IF g.raised THEN Outcome("raised", "groupcols", g.cm, tc0, <<>>, 0)
       ELSE IF SelectRaises(all_cols) THEN Outcome("raised", "select", g.cm, tc0, <<>>, 0)
       ELSE IF inj.raised THEN Outcome("raised", "totalcodes", cm, tc0, <<>>, 0)
       ELSE IF AggregateRaises(agg, all_pivot_names)
            THEN Outcome("raised", "aggregate", cm, tc_after, <<>>, Len(cols))
       ELSE IF keep /\ totalled = <<>>
            THEN Outcome("raised", "fill", cm, tc_after, <<>>, Len(cols))
       ELSE Outcome("returned", "return", cm, tc_after,
                    IF keep THEN FillEmpty(totalled, pivot_vars, agg[1]) ELSE totalled,
                    Len(cols))

-----------------------------------------------------------------------------
\* The calls the model makes.

Rows == [a : Vals, b : Vals, n : NVals]

RowCode(r) == 4 * r.a + 2 * r.b + r.n \div 2

\* Datasets of 1..MaxRows rows, one per multiset of rows (rows in ascending
\* order of a, b, n: the values of b may first appear in either order).
Datasets ==
    {d \in UNION {[1..k -> Rows] : k \in 1..MaxRows} :
        \A i \in DOMAIN d : i = 1 \/ RowCode(d[i - 1]) <= RowCode(d[i])}

Labels1(S) == <<<<"L1", Explicit(S)>>>>

Labels2(S, T) == <<<<"L1", Explicit(S)>>, <<"L2", Explicit(T)>>>>

\* Label definitions of a dimension: a value no label matches, overlapping
\* labels, and a label with an empty value set.
AMaps == {Labels1({1}), Labels2({1}, {1, 2}), Labels2({1, 2}, {})}

BMaps == {Labels1({2}), Labels2({1, 2}, {1})}

Mappings ==
    {<<<<"a", ma>>>> : ma \in AMaps}
    \cup {<<<<"a", ma>>, <<"b", mb>>>> : ma \in AMaps, mb \in BMaps}

\* totalcodes for a mappings object: None, or a total code for its first
\* dimensions.
Totalcodes(cm) ==
    {<<>>} \cup {<<[i \in 1..k |-> <<cm[i][1], "T">>]>> : k \in 1..Len(cm)}

Sum == <<<<"n", "sum">>>>

AggChoices == {<<<<<<"n", f>>>>>> : f \in {"sum", "count", "mean"}}

Args(d, gcols, cm, vcols, agg, tc, keep, grand) ==
    [df |-> d, groupcols |-> gcols, category_mappings |-> cm, valuecols |-> vcols,
     aggargs |-> agg, totalcodes |-> tc, keep_empty |-> keep, grand_total |-> grand]

\* The arguments x are the call about to run.
Start(x) ==
    /\ pc = "ready"
    /\ df = x.df
    /\ groupcols = x.groupcols
    /\ category_mappings = x.category_mappings
    /\ valuecols = x.valuecols
    /\ aggargs = x.aggargs
    /\ totalcodes = x.totalcodes
    /\ keep_empty = x.keep_empty
    /\ grand_total = x.grand_total

\* Calls with explicit mappings over every aggregate and switch.
MainCalls ==
    \E d \in Datasets, cm \in Mappings, agg \in AggChoices,
       tc \in UNION {Totalcodes(m) : m \in Mappings}, keep \in BOOLEAN, grand \in BOOLEAN :
        Start(Args(d, <<>>, <<cm>>, <<"n">>, agg, tc, keep, grand))

\* Calls with group columns, with the mappings left out or given.
GroupCalls ==
    \E d \in Datasets, gcols \in {<<"b">>, <<"a", "b">>},
       cm \in {<<>>, <<<<<<"a", Labels2({1}, {1, 2})>>>>>>},
       tc \in {<<>>, <<<<<<"b", "T">>>>>>, <<<<<<"a", "T">>, <<"b", "T">>>>>>},
       keep \in BOOLEAN, grand \in BOOLEAN :
        Start(Args(d, gcols, cm, <<"n">>, <<Sum>>, tc, keep, grand))

\* Calls that leave aggargs out.
NoneCalls ==
    \E d \in Datasets, cm \in Mappings :
        Start(Args(d, <<>>, <<cm>>, <<"n">>, <<>>, <<>>, FALSE, TRUE))

\* Calls that name a column "z" the dataset does not have: in groupcols, as
\* a dimension of category_mappings, or in valuecols.
ErrCalls ==
    \E d \in Datasets, keep \in BOOLEAN :
        \/ \E gcols \in {<<"z">>, <<"b", "z">>} :
            Start(Args(d, gcols, <<<<<<"a", Labels1({1})>>>>>>, <<"n">>, <<Sum>>, <<>>, keep, TRUE))
        \/ \E cm \in {<<<<"z", Labels1({1})>>>>, <<<<"a", Labels1({1})>>, <<"z", Labels1({1})>>>>} :
            Start(Args(d, <<>>, <<cm>>, <<"n">>, <<Sum>>, <<>>, keep, TRUE))
        \/ \E vcols \in {<<"z">>, <<"n", "z">>} :
            Start(Args(d, <<>>, <<<<<<"a", Labels1({1})>>>>>>, vcols, <<Sum>>, <<>>, keep, TRUE))

\* The datasets of the calls that follow an earlier call: one or two
\* different rows whose two dimension columns agree.
FollowData ==
    LET R == {r \in Rows : r.n = 2 /\ r.a = r.b}
        pairs == {p \in R \X R : RowCode(p[1]) < RowCode(p[2]) /\ MaxRows >= 2}
    IN {<<r>> : r \in R} \cup {<<p[1], p[2]>> : p \in pairs}

\* The calls that follow an earlier call with argument objects of their
\* own: with a group column and the mappings left out or given, or with
\* mappings, a totalcodes entry, keep_empty and any aggregate.
FollowUps ==
    {Args(d, gcols, cm, <<"n">>, <<Sum>>, <<>>, FALSE, TRUE) :
        d \in {x \in FollowData : Len(x) = 1}, gcols \in {<<>>, <<"a">>, <<"b">>},
        cm \in {<<>>, <<<<<<"a", Labels1({1})>>>>>>}}
    \cup
    {Args(d, <<>>, <<<<<<"a", Labels1({1})>>>>>>, <<"n">>, agg, <<<<<<"a", "T">>>>>>, keep, TRUE) :
        d \in {x \in FollowData : Len(x) = 1}, agg \in AggChoices, keep \in BOOLEAN}

-----------------------------------------------------------------------------
\* The state machine: the caller writes a call, the call runs.

NoEntry == [category_mappings |-> <<>>, totalcodes |-> <<>>]

\* The caller writes the call x.
Prepare(x) ==
    /\ pc' = "ready"
    /\ df' = x.df
    /\ groupcols' = x.groupcols
    /\ category_mappings' = x.category_mappings
    /\ valuecols' = x.valuecols
    /\ aggargs' = x.aggargs
    /\ totalcodes' = x.totalcodes
    /\ keep_empty' = x.keep_empty
    /\ grand_total' = x.grand_total
    /\ entry' = NoEntry
    /\ tbl' = <<>>
    /\ stage' = "entry"
    /\ indicators' = 0
    /\ calls' = calls + 1

\* Right after the module is loaded the default mappings object is {}, and
\* the caller has written a first call.
Init ==
    /\ default_mappings = <<>>
    /\ (MainCalls \/ GroupCalls \/ NoneCalls \/ ErrCalls)
    /\ entry = NoEntry
    /\ tbl = <<>>
    /\ stage = "entry"
    /\ indicators = 0
    /\ calls = 1

\* The mappings object the call works on: the caller's, or the default one.
Effective == IF category_mappings = <<>> THEN default_mappings ELSE category_mappings[1]

\* all_combos_non_exclusive_agg runs from entry to its return or raise.
Call ==
    /\ pc = "ready"
    /\ LET r == Body(df, groupcols, Effective, valuecols, aggargs, totalcodes,
                     keep_empty, grand_total)
       IN /\ pc' = r.pc
          /\ stage' = r.stage
          /\ tbl' = r.tbl
          /\ indicators' = r.indicators
          /\ category_mappings' = IF category_mappings = <<>> THEN <<>> ELSE <<r.cm>>
          /\ default_mappings' = IF category_mappings = <<>> THEN r.cm ELSE default_mappings
          /\ totalcodes' = r.tc
    /\ entry' = [category_mappings |-> Effective, totalcodes |-> totalcodes]
    /\ UNCHANGED <<df, groupcols, valuecols, aggargs, keep_empty, grand_total, calls>>

\* After a call ended the caller writes the next one with argument objects
\* of its own.
NextCall ==
    /\ pc # "ready"
    /\ calls < MaxCalls
    /\ \E x \in FollowUps : Prepare(x)
    /\ UNCHANGED default_mappings

\* After a call ended the caller writes the next one and passes the same
\* category_mappings and totalcodes objects again, as the call left them.
ReuseCall ==
    /\ pc # "ready"
    /\ calls < MaxCalls
    /\ \E d \in FollowData, gcols \in {<<>>, <<"b">>}, agg \in AggChoices,
          keep \in BOOLEAN, grand \in BOOLEAN :
        Prepare(Args(d, gcols, category_mappings, <<"n">>, agg, totalcodes, keep, grand))
    /\ UNCHANGED default_mappings

Next == Call \/ NextCall \/ ReuseCall

Spec == Init /\ [][Next]_vars

-----------------------------------------------------------------------------
\* Vocabulary of the properties.  After a call, Effective is the mappings
\* object as the call left it: the dimensions and labels the call used.

Returned == pc = "returned"

Ended == pc # "ready"

Dims == KeySet(Effective)

LabelsOf(v) == KeySet(DictGet(Effective, v))

SpecOf(v, l) == DictGet(DictGet(Effective, v), l)

AllExplicit == \A v \in Dims : \A l \in LabelsOf(v) : ~SpecOf(v, l).all

\* Every choice of one label per dimension.
Combos == {c \in [Dims -> UNION {LabelsOf(v) : v \in Dims}] : \A v \in Dims : c[v] \in LabelsOf(v)}

\* The rows of table t whose label columns are the combination c.
RowsFor(t, c) == SelectSeq(t, LAMBDA r : \A v \in Dims : r[v] = c[v])

\* The raw values label l of dimension v stands for.
ValuesOf(v, l) == IF SpecOf(v, l).all THEN Range(Column(df, v)) ELSE SpecOf(v, l).vals

\* The raw rows that satisfy every membership predicate of combination c.
Matching(c) == SelectSeq(df, LAMBDA r : \A v \in Dims : r[v] \in ValuesOf(v, c[v]))

RECURSIVE IntSum(_)
IntSum(rows) == IF rows = <<>> THEN 0 ELSE rows[1].n + IntSum(Tail(rows))

\* Aggregate f applied once and directly to the n cells of raw rows.
Direct(f, rows) ==
    CASE f = "sum" -> Num(IntSum(rows))
      [] f = "count" -> Num(Len(rows))
      [] f = "mean" -> IF rows = <<>> THEN Null ELSE Norm(<<IntSum(rows), Len(rows)>>)

\* The aggregate function the call was given for column n.
AggOf == DictGet(aggargs[1], "n")

\* The total label of dimension v: the entry of the totalcodes the call
\* received, or "Total".
TotalLabel(v) ==
    IF entry.totalcodes # <<>> /\ v \in KeySet(entry.totalcodes[1])
    THEN DictGet(entry.totalcodes[1], v) ELSE "Total"

\* What the same call returns with other switches.
Variant(agg, keep, grand) ==
    Body(df, groupcols, entry.category_mappings, valuecols, agg, entry.totalcodes, keep, grand)

\* The product of the values of a function.
RECURSIVE Prod(_)
Prod(f) ==
    IF DOMAIN f = {} THEN 1
    ELSE LET v == CHOOSE x \in DOMAIN f : TRUE
         IN f[v] * Prod([x \in DOMAIN f \ {v} |-> f[x]])

-----------------------------------------------------------------------------
\* C1 as stated: with the sum aggregate and every label an explicit value
\* set, for every setting of keep_empty and every combination of one label
\* per dimension, the returned row of that combination carries the sum of n
\* over exactly the raw rows whose value in every dimension lies in the
\* chosen label's value set, and a combination has no row only if no raw
\* row satisfies all its predicates.
C1_ConjunctiveFilterAsStated ==
    (Returned /\ aggargs = <<Sum>> /\ AllExplicit) =>
        \A c \in Combos :
            IF RowsFor(tbl, c) = <<>> THEN Matching(c) = <<>>
            ELSE RowsFor(tbl, c)[1].n = Num(IntSum(Matching(c)))

\* C1 amended: with the sum aggregate and every label an explicit value
\* set, for every setting of keep_empty, a combination of one label per
\* dimension that some raw row satisfies has a returned row, which carries
\* the sum of n over exactly the raw rows whose value in every dimension
\* lies in the chosen label's value set; a combination no raw row satisfies
\* has no row, or, with keep_empty only, a row whose value is null.
C1_ConjunctiveFilter ==
    (Returned /\ aggargs = <<Sum>> /\ AllExplicit) =>
        \A c \in Combos :
            IF Matching(c) # <<>>
            THEN /\ RowsFor(tbl, c) # <<>>
                 /\ RowsFor(tbl, c)[1].n = Num(IntSum(Matching(c)))
            ELSE \/ RowsFor(tbl, c) = <<>>
                 \/ keep_empty /\ RowsFor(tbl, c)[1].n = Null

\* C1 witness: a two-dimension call with keep_empty returned where a raw
\* row lies in the value sets of both labels of dimension a and is counted
\* in full under both, the second label's row also counting a raw row of
\* its own, and a combination no raw row satisfies has a row with null.
C1_Witness ==
    /\ Returned /\ aggargs = <<Sum>> /\ keep_empty /\ AllExplicit
    /\ Dims = {"a", "b"}
    /\ LabelsOf("a") = {"L1", "L2"}
    /\ \E c1, c2 \in Combos :
        /\ c1["a"] = "L1" /\ c2["a"] = "L2" /\ c1["b"] = c2["b"]
        /\ \E i \in DOMAIN df : df[i].n = 2 /\ df[i] \in Range(Matching(c1)) \cap Range(Matching(c2))
        /\ RowsFor(tbl, c1) # <<>> /\ RowsFor(tbl, c2) # <<>>
        /\ RowsFor(tbl, c2)[1].n[1] > RowsFor(tbl, c1)[1].n[1]
        /\ RowsFor(tbl, c1)[1].n[1] > 0
    /\ \E c3 \in Combos :
        Matching(c3) = <<>> /\ RowsFor(tbl, c3) # <<>> /\ RowsFor(tbl, c3)[1].n = Null

\* C2 as stated: with grand_total enabled, for every setting of keep_empty,
\* the returned table is the table the same call returns without
\* grand_total, every row unchanged, plus exactly one appended row that
\* carries each dimension's total label and the aggregate over all rows of
\* the dataset.
C2_GrandTotalAppended ==
    (Returned /\ grand_total) =>
        LET without == Variant(aggargs, keep_empty, FALSE)
            last == tbl[Len(tbl)]
        IN without.pc = "returned" =>
               /\ Len(tbl) = Len(without.tbl) + 1
               /\ SubSeq(tbl, 1, Len(tbl) - 1) = without.tbl
               /\ \A v \in Dims : last[v] = TotalLabel(v)
               /\ last.n = Direct(AggOf, df)

\* C3 as stated: with keep_empty, for every totalcodes and grand_total,
\* every combination of the label values observed per dimension in the
\* result is exactly one row of the returned table, and a combination that
\* had no row before the fill carries a null aggregate.
C3_ExactlyOnce ==
    (Returned /\ keep_empty) =>
        LET observed(v) == Range(Column(tbl, v))
            product == {c \in [Dims -> UNION {observed(v) : v \in Dims}] :
                            \A v \in Dims : c[v] \in observed(v)}
            before == Variant(aggargs, FALSE, grand_total).tbl
        IN \A c \in product :
            /\ Len(RowsFor(tbl, c)) = 1
            /\ RowsFor(before, c) = <<>> => RowsFor(tbl, c)[1].n = Null

\* C4 as stated: the outcome of a call depends only on its arguments, a
\* category_mappings left out meaning the documented default {}: it is the
\* outcome of the same call made right after the module is loaded.
C4_Stateless ==
    Ended =>
        LET fresh == Body(df, groupcols,
                          IF category_mappings = <<>> THEN <<>> ELSE entry.category_mappings,
                          valuecols, aggargs, entry.totalcodes, keep_empty, grand_total)
        IN pc = fresh.pc /\ tbl = fresh.tbl

\* C5 as stated: a call leaves the caller's dataset, category_mappings and
\* totalcodes objects as they were, whether it returns or raises.
C5_ArgumentsUnchanged ==
    [][pc = "ready" =>
          /\ df' = df
          /\ category_mappings' = category_mappings
          /\ totalcodes' = totalcodes]_vars

Bonus == IF grand_total THEN 1 ELSE 0

\* C6 as stated: the returned table has at most as many rows as the product
\* of the label counts of the dimensions the call used, plus one when
\* grand_total is enabled.
C6_RowBoundAsStated ==
    Returned => Len(tbl) <= Prod([v \in Dims |-> Cardinality(LabelsOf(v))]) + Bonus

\* A name the call was given that is no column of the dataset.
MissingName ==
    \E c \in Range(groupcols) \cup KeySet(entry.category_mappings) \cup Range(valuecols) :
        c \notin Columns

\* C7: a call given a name in groupcols, a dimension of category_mappings
\* or a name in valuecols that is no column of the dataset raises in the
\* groupcols loop or the column selection, with no indicator column built,
\* no aggregation pass run and no table returned.
C7_FailsBeforeWork ==
    (Ended /\ MissingName) =>
        /\ pc = "raised"
        /\ stage \in {"groupcols", "select"}
        /\ indicators = 0
        /\ tbl = <<>>

\* C7 witness: a call whose second group column is missing raised in the
\* groupcols loop, and a call whose value column is missing raised in the
\* column selection.
C7_Witness ==
    /\ pc = "raised"
    /\ \/ stage = "groupcols" /\ groupcols = <<"b", "z">>
       \/ stage = "select" /\ valuecols = <<"n", "z">> /\ Len(df) = MaxRows

\* C8 as stated: a call with aggargs None returns the table the same call
\* returns with aggargs mapping every column of valuecols to "sum".
C8_DefaultIsSum ==
    (Ended /\ aggargs = <<>>) =>
        LET sums == <<[i \in DOMAIN valuecols |-> <<valuecols[i], "sum">>]>>
        IN pc = "returned" /\ tbl = Variant(sums, keep_empty, grand_total).tbl

\* C9 as stated: with count or mean as the aggregate of n, the value of the
\* returned row of every combination is that function applied once to the
\* n cells of the raw rows that satisfy all the combination's predicates.
C9_CountMeanDirect ==
    (Returned /\ ~keep_empty /\ AllExplicit /\ AggOf \in {"count", "mean"}) =>
        \A c \in Combos :
            RowsFor(tbl, c) # <<>> => RowsFor(tbl, c)[1].n = Direct(AggOf, Matching(c))

\* Raw row r supports the combination of table row t: in every dimension
\* the label is the total label or r's value is in the label's value set.
Supports(r, t) ==
    \A v \in Dims :
        \/ t[v] = TotalLabel(v)
        \/ t[v] \in LabelsOf(v) /\ r[v] \in ValuesOf(v, t[v])

\* C10 as stated: with keep_empty a returned row has a null aggregate only
\* if no raw row supports its combination.
C10_NullOnlyUnsupported ==
    (Returned /\ keep_empty) =>
        \A i \in DOMAIN tbl :
            tbl[i].n = Null => ~\E j \in DOMAIN df : Supports(df[j], tbl[i])

====
